---- MODULE Spec2Model ----
(***************************************************************************)
(* State-machine model of web_crawler.py: the recursive crawl() with its   *)
(* global visited set and download counter, download_file(),               *)
(* upload_to_azure_blob() and the configuration checks of main().          *)
(*                                                                         *)
(* Python strings are modelled as sequences of one-character strings, so   *)
(* that urlparse, os.path.splitext, os.path.basename, str.lower and the    *)
(* substring test are computed the way the library computes them.          *)
(***************************************************************************)
EXTENDS Integers, Sequences, FiniteSets, Bags, TLC

(***************************************************************************)
(* Bounds of the model.                                                    *)
(***************************************************************************)
\* --max_depth ranges over 0..MaxDepthArg
MaxDepthArg == 3
\* --max_files ranges over 0..MaxFilesArg
MaxFilesArg == 2
\* crawl() recurses at most this deep (the interpreter's recursion limit)
MaxStack == 5

(***************************************************************************)
(* String helpers (str methods of Python).                                 *)
(***************************************************************************)
UpperCase == <<"A","B","C","D","E","F","G","H","I","J","K","L","M",
               "N","O","P","Q","R","S","T","U","V","W","X","Y","Z">>
LowerCase == <<"a","b","c","d","e","f","g","h","i","j","k","l","m",
               "n","o","p","q","r","s","t","u","v","w","x","y","z">>

LowerChar(c) ==
    IF \E i \in 1..Len(UpperCase) : UpperCase[i] = c
    THEN LowerCase[CHOOSE i \in 1..Len(UpperCase) : UpperCase[i] = c]
    ELSE c

\* str.lower()
Lower(s) == [i \in 1..Len(s) |-> LowerChar(s[i])]

\* s[i:] with a 1-based i
Drop(s, i) == SubSeq(s, i, Len(s))

\* str.startswith(prefix)
StartsWith(s, prefix) ==
    /\ Len(prefix) <= Len(s)
    /\ SubSeq(s, 1, Len(prefix)) = prefix

\* str.endswith(suffix)
EndsWith(s, suffix) ==
    /\ Len(suffix) <= Len(s)
    /\ SubSeq(s, Len(s) - Len(suffix) + 1, Len(s)) = suffix

\* the Python test  sub in s  on strings
Contains(sub, s) ==
    \E i \in 1..(Len(s) + 1) :
        /\ i + Len(sub) - 1 <= Len(s)
        /\ SubSeq(s, i, i + Len(sub) - 1) = sub

\* str.find(c) for a set of characters, 1-based; 0 when absent
FindAny(s, cs) ==
    IF \E i \in 1..Len(s) : s[i] \in cs
    THEN CHOOSE i \in 1..Len(s) : s[i] \in cs /\ \A j \in 1..(i - 1) : s[j] \notin cs
    ELSE 0

\* str.rfind(c), 1-based; 0 when absent
RFind(s, c) ==
    IF \E i \in 1..Len(s) : s[i] = c
    THEN CHOOSE i \in 1..Len(s) : s[i] = c /\ \A j \in (i + 1)..Len(s) : s[j] # c
    ELSE 0

\* str.strip(c)
Strip(s, c) ==
    IF \A i \in 1..Len(s) : s[i] = c
    THEN <<>>
    ELSE LET a == CHOOSE i \in 1..Len(s) : s[i] # c /\ \A j \in 1..(i - 1) : s[j] = c
             b == CHOOSE i \in 1..Len(s) : s[i] # c /\ \A j \in (i + 1)..Len(s) : s[j] = c
         IN  SubSeq(s, a, b)

(***************************************************************************)
(* urllib.parse.urlparse and os.path.                                      *)
(***************************************************************************)
\* s[:e] with e the 1-based place of a delimiter, 0 when there is none
UpTo(s, e) == IF e = 0 THEN s ELSE SubSeq(s, 1, e - 1)

\* s[e:] with e the 1-based place of a delimiter, 0 when there is none
From(s, e) == IF e = 0 THEN <<>> ELSE Drop(s, e)

\* the url without "scheme:", the first ":" being at i (the whole url when
\* that is no scheme)
AfterSchemeAt(url, i) ==
    IF i > 1 /\ \A j \in 1..(i - 1) : url[j] \notin {"/", "?", "#"}
    THEN Drop(url, i + 1)
    ELSE url

\* what follows "scheme:" in the url
AfterScheme(url) == AfterSchemeAt(url, FindAny(url, {":"}))

\* the netloc of what follows "//": it ends at the first of / ? #
Authority(r) == UpTo(r, FindAny(r, {"/", "?", "#"}))

\* what follows the netloc
AfterAuthority(r) == From(r, FindAny(r, {"/", "?", "#"}))

\* the netloc of a url without its scheme
NetlocOfRest(rest) ==
    IF StartsWith(rest, <<"/", "/">>) THEN Authority(Drop(rest, 3)) ELSE <<>>

\* urlparse(url).netloc
Netloc(url) == NetlocOfRest(AfterScheme(url))

\* path, query and fragment of a url without its scheme
PathOfRest(rest) ==
    IF StartsWith(rest, <<"/", "/">>) THEN AfterAuthority(Drop(rest, 3)) ELSE rest

\* the path without the query and the fragment
WithoutQuery(r) == UpTo(r, FindAny(r, {"?", "#"}))

\* urlparse(url).path
Path(url) == WithoutQuery(PathOfRest(AfterScheme(url)))

\* os.path.basename(p)
Basename(p) == Drop(p, RFind(p, "/") + 1)

\* the extension of p, the last separator being at sep and the last dot at
\* dot: the dot starts the extension unless only dots precede it in the last
\* component
SplitExtAt(p, sep, dot) ==
    IF dot > sep /\ \E i \in (sep + 1)..(dot - 1) : p[i] # "."
    THEN Drop(p, dot)
    ELSE <<>>

\* os.path.splitext(p)[1]
SplitExt(p) == SplitExtAt(p, RFind(p, "/"), RFind(p, "."))

(***************************************************************************)
(* The web: the hrefs a rendered page may carry.                           *)
(***************************************************************************)
HTTP == <<"h","t","t","p",":","/","/">>
\* http://a/          the starting URL
U_start == HTTP \o <<"a","/">>
\* http://a/b         a page of the start domain, no extension
U_page == HTTP \o <<"a","/","b">>
\* http://a/c.php     a page of the start domain with an extension
U_php == HTTP \o <<"a","/","c",".","p","h","p">>
\* http://o/x         a page of another domain
U_offpage == HTTP \o <<"o","/","x">>
\* http://a/d.PDF     a file of the start domain
U_pdf == HTTP \o <<"a","/","d",".","P","D","F">>
\* http://o/d.PDF     a file of another domain with the same basename
U_offpdf == HTTP \o <<"o","/","d",".","P","D","F">>
\* http://a/e.pdf     a second file of the start domain
U_pdf2 == HTTP \o <<"a","/","e",".","p","d","f">>
\* ftp://a/f          an href that is no http link
U_ftp == <<"f","t","p",":","/","/","a","/","f">>

Hrefs == {U_start, U_page, U_php, U_offpage, U_pdf, U_offpdf, U_pdf2, U_ftp}

\* the anchors find_elements may return for a page (driver.find_elements,
\* line 169): what the site serves for url is one of a few sets of hrefs
PageContents(url) ==
    CASE url = U_start ->
            {{U_page, U_php, U_pdf}, {U_offpage, U_offpdf, U_pdf}, {U_start, U_ftp, U_page}}
      [] url = U_page -> {{U_php, U_start}, {U_pdf, U_pdf2}}
      [] url = U_php -> {{U_offpage, U_page}, {U_pdf}}
      [] url = U_offpage -> {{U_start, U_offpdf}, {U_page}}
      [] OTHER -> {{}}

EXT_html == <<"h","t","m","l">>
EXT_pdf == <<"p","d","f">>

(***************************************************************************)
(* State.                                                                  *)
(***************************************************************************)
VARIABLES
    \* command line (main, lines 230-260) and environment
    max_depth, max_files, stay_on_domain, allowed_exts,
    exclude_download, exclude_crawl, blob_upload, container, conn_str,
    \* globals of the module (lines 25-26)
    downloaded_files_count, visited_pages,
    \* the download directory: local filename -> what wrote it
    files,
    \* the activations of crawl(), outermost first
    stack,
    \* where main() is: "init", "running", "done", "exit1", "aborted"
    pc,
    \* observations of the calls made to the collaborators
    fetched,      \* bag of the driver.get calls: [url, depth]
    extracted,    \* the links found on the loaded pages: [page, depth, link]
    dispatched,   \* bag of the urls download_file was called with
    requested,    \* bag of the urls requests.get was issued for
    writes,       \* bag of the local filenames opened for writing
    uploaded,     \* local filenames upload_blob was invoked for
    \* a call of upload_to_azure_blob taken on its own: its inputs and result
    upload_call

args == <<max_depth, max_files, stay_on_domain, allowed_exts,
          exclude_download, exclude_crawl, blob_upload, container, conn_str>>
observed == <<fetched, extracted, dispatched, requested, writes, uploaded>>
vars == <<args, downloaded_files_count, visited_pages, files, stack, pc, observed,
         upload_call>>

starting_url == U_start
\* main, line 296
start_domain == Netloc(starting_url)

(***************************************************************************)
(* The decisions of crawl() and download_file().                           *)
(***************************************************************************)
\* the budget test with > for >=
BudgetExhausted_late ==
    max_files # 0 /\ downloaded_files_count > max_files

\* lines 144, 209, 214, 226:  max_files and downloaded_files_count >= max_files
BudgetExhausted ==
    max_files # 0 /\ downloaded_files_count >= max_files

\* crawl() without its visited check
AlreadyVisited_unchecked(url) == FALSE

\* line 147:  url in visited_pages
AlreadyVisited(url) == url \in visited_pages

\* crawl() that forgets to record the url
MarkVisited_forgotten(url) == visited_pages

\* line 149:  visited_pages.add(url)
MarkVisited(url) == visited_pages \cup {url}

\* the exclusion test as list membership, as download_file has it
CrawlExcluded_exact(url) == url \in exclude_crawl

\* lines 152-155:  some ex of exclude_crawl is a substring of url
CrawlExcluded(url) == \E ex \in exclude_crawl : Contains(ex, url)

\* the hrefs that start with "http", the visited ones included
ExtractLinks_unfiltered(content, visited) ==
    {href \in content : href # <<>> /\ StartsWith(href, <<"h","t","t","p">>)}

\* lines 174-184: the hrefs that start with "http", minus the visited ones
ExtractLinks(content, visited) ==
    {href \in content : href # <<>> /\ StartsWith(href, <<"h","t","t","p">>)} \ visited

\* lines 192-193: no extension is taken as html
DefaultExt(file_ext) == IF file_ext = <<>> THEN EXT_html ELSE file_ext

\* lines 189-193: the extension of the link's path, "html" when there is none
FileExt(link) == DefaultExt(Lower(Strip(SplitExt(Path(link)), ".")))

\* the hrefs of the web are parsed once: urlparse(link).netloc and the
\* extension of each
NetlocOf == [link \in Hrefs |-> Netloc(link)]
FileExtOf == [link \in Hrefs |-> FileExt(link)]

\* crawl() without its domain check
OffDomain_unchecked(link) == FALSE

\* lines 198, 220:  stay_on_domain and urlparse(link).netloc != start_domain
OffDomain(link) == stay_on_domain /\ NetlocOf[link] # start_domain

\* html pages are saved without a look at the budget
HtmlDownloadWanted_unbudgeted == EXT_html \in allowed_exts

\* the page is saved only when it will also be crawled
HtmlDownloadWanted_depth_gated ==
    /\ EXT_html \in allowed_exts
    /\ (max_files = 0 \/ downloaded_files_count < max_files)
    /\ (max_depth = 0 \/ stack[Len(stack)].current_depth < max_depth)

\* line 201: html was asked for and the budget is not used up
HtmlDownloadWanted ==
    /\ EXT_html \in allowed_exts
    /\ (max_files = 0 \/ downloaded_files_count < max_files)

\* the depth test with max_depth = 0 taken as a limit like any other
DepthExceeded_zero_limits(current_depth) == current_depth >= max_depth

\* the depth test with > for >=
DepthExceeded_late(current_depth) == max_depth # 0 /\ current_depth > max_depth

\* lines 204, 222:  max_depth != 0 and current_depth >= max_depth
DepthExceeded(current_depth) == max_depth # 0 /\ current_depth >= max_depth

\* line 80:  file_url in exclude_download  (exclude_download is a list)
DownloadExcluded(file_url) == file_url \in exclude_download

dot_html == <<".","h","t","m","l">>

\* lines 88-96: the name of an HTML page, from the basename of its path and
\* from the last component of the path without its slashes
HtmlFilename(filename, last) ==
    IF filename = <<>>
    THEN IF last # <<>>
         THEN last \o dot_html
         ELSE <<"h","o","m","e">> \o dot_html
    ELSE IF EndsWith(Lower(filename), dot_html)
            \/ EndsWith(Lower(filename), <<".","h","t","m">>)
         THEN filename
         ELSE filename \o dot_html

\* lines 98-101: the name of any other file
OtherFilename(filename, file_ext, now) ==
    IF filename = <<>>
    THEN <<"d","o","w","n","l","o","a","d","e","d","_","f","i","l","e","_">>
         \o now \o <<".">> \o file_ext
    ELSE filename

\* lines 86-101: the name derived from the parsed path
FilenameOfPath(path, file_ext, now) ==
    IF file_ext = EXT_html
    THEN HtmlFilename(Basename(path), Basename(Strip(path, "/")))
    ELSE OtherFilename(Basename(path), file_ext, now)

\* lines 85-101: the local file name download_file derives
LocalFilename(file_url, file_ext, now) ==
    FilenameOfPath(Path(file_url), file_ext, now)

(***************************************************************************)
(* What the collaborators may answer.                                      *)
(***************************************************************************)
\* requests.get / open / write of one download
Outcomes == {"ok", "req_fail", "open_fail", "write_fail"}
\* str(int(time.time()))
Clock == {<<"1">>, <<"2">>}
\* instants, in hours
Times == 0..2
\* the hours the machine's local time is ahead of UTC
UtcOffsets == {-2, 0, 2}
\* what one call of upload_to_azure_blob may meet: get_blob_properties answers
\* or raises, the instant the blob was last modified, the instant the local
\* file was modified, the time zone of the machine, and whether upload_blob
\* succeeds
UploadInputs == [props : {"ok", "error"}, last_modified : Times,
                 local_modified : Times, utc_offset : UtcOffsets,
                 upload : {"ok", "fail"}]
\* the blob store at the upload that follows a download: the local file has
\* just been written
BlobEnvs == {b \in UploadInputs : b.local_modified = 1}
NoBlob == [props |-> "error", last_modified |-> 0, local_modified |-> 1,
           utc_offset |-> 0, upload |-> "ok"]

\* time.time() is read only to name a file whose url has no basename (line 101)
ClockFor(file_url) == IF Basename(Path(file_url)) = <<>> THEN Clock ELSE {<<>>}
ClockOf == [file_url \in Hrefs |-> ClockFor(file_url)]

\* the local file names of the hrefs, as download_file derives them
LocalFilenameOf ==
    [file_url \in Hrefs |->
        [file_ext \in {EXT_html, FileExtOf[file_url]} |->
            [now \in ClockOf[file_url] |-> LocalFilename(file_url, file_ext, now)]]]

\* line 56: props.last_modified.replace(tzinfo=None) drops the UTC zone of the
\* time the blob store answers: the wall-clock time in UTC
blob_last_modified(blob) == blob.last_modified

\* line 57: datetime.fromtimestamp(os.path.getmtime(file_path)) is the
\* wall-clock time in the zone of the machine
local_modified(blob) == blob.local_modified + blob.utc_offset

\* lines 55-61: the upload is skipped when the blob is at least as recent
UploadSkipped(blob) ==
    blob.props = "ok" /\ local_modified(blob) <= blob_last_modified(blob)

\* lines 48-68: upload_to_azure_blob; an upload_blob failure is not caught
upload_to_azure_blob(local_path, blob, g) ==
    IF UploadSkipped(blob)
    THEN g
    ELSE [g EXCEPT !.uploaded = @ \cup {local_path},
                   !.raised = (blob.upload = "fail")]

\* the globals download_file works on
Globals ==
    [count |-> downloaded_files_count, files |-> files, requested |-> requested,
     writes |-> writes, uploaded |-> uploaded, raised |-> FALSE]

\* download_file without its test for an existing file
FileExists_unchecked(local_path) == FALSE

\* line 105:  os.path.exists(local_path)
FileExists(local_path) == local_path \in DOMAIN files

\* file f of the directory written by src, completely or not
WithFile(fs, f, src, complete) ==
    [n \in DOMAIN fs \cup {f} |->
        IF n = f THEN [src |-> src, complete |-> complete] ELSE fs[n]]

\* the download is not counted
CountDownload_skipped(n) == n

\* line 117:  downloaded_files_count += 1
CountDownload(n) == n + 1

\* lines 123-124: the upload that follows a download
\* (blob_service_client is set whenever blob_upload is and main got this far)
UploadAfterDownload(local_path, blob, g) ==
    IF blob_upload THEN upload_to_azure_blob(local_path, blob, g) ELSE g

\* the request and the write with the counter incremented before the write,
\* so that a write that fails is counted
FetchAndSave_counted_early(file_url, local_path, out, g) ==
    LET req == [g EXCEPT !.requested = @ (+) SetToBag({file_url})]
    IN  CASE out = "req_fail" -> req
          [] out = "open_fail" -> req
          [] out = "write_fail" ->
                [req EXCEPT !.files = WithFile(@, local_path, file_url, FALSE),
                            !.writes = @ (+) SetToBag({local_path}),
                            !.count = CountDownload(@)]
          [] OTHER ->
                [req EXCEPT !.files = WithFile(@, local_path, file_url, TRUE),
                            !.writes = @ (+) SetToBag({local_path}),
                            !.count = CountDownload(@)]

\* lines 109-120: the request and the write, for each answer of the collaborators
FetchAndSave(file_url, local_path, out, g) ==
    LET req == [g EXCEPT !.requested = @ (+) SetToBag({file_url})]
    IN  CASE out = "req_fail" -> req
          [] out = "open_fail" -> req
          [] out = "write_fail" ->
                [req EXCEPT !.files = WithFile(@, local_path, file_url, FALSE),
                            !.writes = @ (+) SetToBag({local_path})]
          [] OTHER ->
                [req EXCEPT !.files = WithFile(@, local_path, file_url, TRUE),
                            !.writes = @ (+) SetToBag({local_path}),
                            !.count = CountDownload(@)]

\* lines 116-124: the upload follows only a download that succeeded
AfterSave(local_path, env, g) ==
    IF env.out = "ok" THEN UploadAfterDownload(local_path, env.blob, g) ELSE g

\* lines 103-124: download_file once the local path is known
DownloadTo(file_url, local_path, env) ==
    IF FileExists(local_path)
    THEN Globals
    ELSE AfterSave(local_path, env, FetchAndSave(file_url, local_path, env.out, Globals))

\* lines 70-126: download_file, as the new value of the globals
download_file(file_url, file_ext, now, env) ==
    IF DownloadExcluded(file_url)
    THEN Globals
    ELSE DownloadTo(file_url, LocalFilenameOf[file_url][file_ext][now], env)

\* the answers one call of download_file may get: the blob store is asked only
\* after a download that succeeded, and only when upload is on
DownloadEnvs ==
    {[out |-> o, blob |-> NoBlob] : o \in Outcomes \ {"ok"}}
    \cup {[out |-> "ok", blob |-> b] : b \in (IF blob_upload THEN BlobEnvs ELSE {NoBlob})}
NoDownload == [out |-> "ok", blob |-> NoBlob]

(***************************************************************************)
(* Initial states: the command lines and the download directory the        *)
(* program is started with.                                                *)
(***************************************************************************)
\* local name of the pdf links
F_pdf == <<"d",".","P","D","F">>
\* a file an earlier run left in the download directory
OldFile == [src |-> <<>>, complete |-> TRUE]

ExtensionArgs == {{EXT_pdf}, {EXT_pdf, EXT_html}}

\* the rest of the command line and the environment: exclusion lists, upload
\* to the blob store (with or without its container and connection string)
\* and the download directory, each varied on its own
Plain ==
    [exclude_download |-> {}, exclude_crawl |-> {}, blob_upload |-> FALSE,
     container |-> FALSE, conn_str |-> FALSE, files |-> <<>>]
Setups ==
    {Plain,
     [Plain EXCEPT !.exclude_crawl = {<<"b">>}],
     [Plain EXCEPT !.exclude_download = {U_pdf, <<"o","/">>}],
     [Plain EXCEPT !.files = [n \in {F_pdf} |-> OldFile]],
     [Plain EXCEPT !.blob_upload = TRUE, !.container = TRUE, !.conn_str = TRUE],
     [Plain EXCEPT !.blob_upload = TRUE, !.conn_str = TRUE],
     [Plain EXCEPT !.blob_upload = TRUE, !.container = TRUE]}

\* no call of upload_to_azure_blob is looked at on its own
NoUploadCall ==
    [pc |-> "none", file_path |-> <<>>, blob |-> NoBlob, uploaded |-> {}, raised |-> FALSE]

Init ==
    /\ upload_call = NoUploadCall
    /\ max_depth \in 0..MaxDepthArg
    /\ max_files \in 0..MaxFilesArg
    /\ stay_on_domain \in BOOLEAN
    /\ allowed_exts \in ExtensionArgs
    /\ \E setup \in Setups :
        /\ exclude_download = setup.exclude_download
        /\ exclude_crawl = setup.exclude_crawl
        /\ blob_upload = setup.blob_upload
        /\ container = setup.container
        /\ conn_str = setup.conn_str
        /\ files = setup.files
    /\ downloaded_files_count = 0
    /\ visited_pages = {}
    /\ stack = <<>>
    /\ pc = "init"
    /\ fetched = EmptyBag
    /\ extracted = {}
    /\ dispatched = EmptyBag
    /\ requested = EmptyBag
    /\ writes = EmptyBag
    /\ uploaded = {}

(***************************************************************************)
(* main(), lines 229-317.                                                  *)
(***************************************************************************)
\* the check of the connection string left out
ConfigError_container_only == blob_upload /\ ~container

\* lines 270-282: upload asked for without a container or connection string
ConfigError == blob_upload /\ (~container \/ ~conn_str)

\* an activation of crawl(url, current_depth) that has not started its body
Call(url, current_depth) ==
    [url |-> url, current_depth |-> current_depth, links |-> {}, pc |-> "entry"]

\* lines 267-312: the configuration checks, the driver, the first call of crawl
Main ==
    /\ pc = "init"
    /\ \E setup_ok \in BOOLEAN :
        IF ConfigError \/ (blob_upload /\ ~setup_ok)
        THEN /\ pc' = "exit1"
             /\ stack' = stack
        ELSE /\ pc' = "running"
             /\ stack' = <<Call(starting_url, 1)>>
    /\ UNCHANGED <<args, upload_call, downloaded_files_count, visited_pages, files, observed>>

(***************************************************************************)
(* crawl(), lines 128-227.                                                 *)
(***************************************************************************)
Top(stk) == stk[Len(stk)]
SetTop(stk, f) == [stk EXCEPT ![Len(stk)] = f]

\* the activation without the link it has just taken from its for loop
Advance(f, link) == [f EXCEPT !.links = @ \ {link}]
\* break: the for loop is left
Break(f) == [f EXCEPT !.links = {}]

\* crawl() returns; its caller runs the check after the call (lines 209, 226)
Return(stk) ==
    LET rest == SubSeq(stk, 1, Len(stk) - 1)
    IN  IF rest = <<>> THEN rest
        ELSE IF BudgetExhausted THEN SetTop(rest, Break(Top(rest)))
        ELSE rest

\* main() after crawl() returned (lines 314-317)
AfterReturn(stk) == IF stk = <<>> THEN "done" ELSE "running"

InCrawl(at) == pc = "running" /\ stack # <<>> /\ Top(stack).pc = at

\* lines 144-185: the checks on entry, the page load, the links found
CrawlEntry ==
    /\ InCrawl("entry")
    /\ LET f == Top(stack)
           visited == MarkVisited(f.url)
       IN  IF BudgetExhausted \/ AlreadyVisited(f.url)
           THEN /\ stack' = Return(stack)
                /\ UNCHANGED <<visited_pages, fetched, extracted>>
           ELSE /\ visited_pages' = visited
                /\ IF CrawlExcluded(f.url)
                   THEN /\ stack' = Return(stack)
                        /\ UNCHANGED <<fetched, extracted>>
                   ELSE /\ fetched' = fetched (+) SetToBag({[url |-> f.url, depth |-> f.current_depth]})
                        /\ \/ /\ stack' = Return(stack)
                              /\ UNCHANGED extracted
                           \/ \E content \in PageContents(f.url) :
                                LET links == ExtractLinks(content, visited)
                                IN  /\ stack' = SetTop(stack,
                                            [f EXCEPT !.links = links, !.pc = "loop"])
                                    /\ extracted' = extracted \cup
                                            {[page |-> f.url, depth |-> f.current_depth,
                                              link |-> l] : l \in links}
    /\ pc' = AfterReturn(stack')
    /\ UNCHANGED <<args, upload_call, downloaded_files_count, files, dispatched, requested, writes, uploaded>>

\* the globals after a call of download_file
SetGlobals(g) ==
    /\ downloaded_files_count' = g.count
    /\ files' = g.files
    /\ requested' = g.requested
    /\ writes' = g.writes
    /\ uploaded' = g.uploaded

\* an exception nobody catches: main's finally quits the driver (lines 314-315)
Abort ==
    /\ pc' = "aborted"
    /\ stack' = <<>>

\* lines 207-208, 224-225: the recursive call for link
Recurse(f, link) ==
    /\ Len(stack) < MaxStack
    /\ stack' = Append(SetTop(stack, Advance(f, link)), Call(link, f.current_depth + 1))
    /\ pc' = pc

\* continue: on to the next link
Continue(f, link) ==
    /\ stack' = SetTop(stack, Advance(f, link))
    /\ pc' = pc

\* lines 196-208: a link taken as an HTML page
LoopHtml ==
    /\ InCrawl("loop")
    /\ \E link \in Top(stack).links :
        /\ FileExtOf[link] = EXT_html
        /\ LET f == Top(stack)
           IN  IF OffDomain(link)
               THEN /\ Continue(f, link)
                    /\ UNCHANGED <<downloaded_files_count, files, observed>>
               ELSE \E now \in ClockOf[link],
                       env \in (IF HtmlDownloadWanted THEN DownloadEnvs ELSE {NoDownload}) :
                    \E g \in {IF HtmlDownloadWanted
                              THEN download_file(link, EXT_html, now, env)
                              ELSE Globals} :
                        /\ SetGlobals(g)
                        /\ dispatched' = IF HtmlDownloadWanted
                                         THEN dispatched (+) SetToBag({link})
                                         ELSE dispatched
                        /\ IF g.raised THEN Abort
                           ELSE IF DepthExceeded(f.current_depth) THEN Continue(f, link)
                           ELSE Recurse(f, link)
                        /\ UNCHANGED <<fetched, extracted>>
    /\ UNCHANGED <<args, upload_call, visited_pages>>

\* the file branch with the domain check of the page branches
LoopFile_domain_checked ==
    /\ InCrawl("loop")
    /\ \E link \in Top(stack).links :
        /\ FileExtOf[link] # EXT_html
        /\ FileExtOf[link] \in allowed_exts
        /\ LET f == Top(stack)
           IN  IF OffDomain(link)
               THEN /\ Continue(f, link)
                    /\ UNCHANGED <<downloaded_files_count, files, observed>>
               ELSE IF BudgetExhausted
               THEN /\ stack' = SetTop(stack, Break(f))
                    /\ pc' = pc
                    /\ UNCHANGED <<downloaded_files_count, files, observed>>
               ELSE \E now \in ClockOf[link], env \in DownloadEnvs :
                    \E g \in {download_file(link, FileExtOf[link], now, env)} :
                        /\ SetGlobals(g)
                        /\ dispatched' = dispatched (+) SetToBag({link})
                        /\ IF g.raised THEN Abort ELSE Continue(f, link)
                        /\ UNCHANGED <<fetched, extracted>>
    /\ UNCHANGED <<args, upload_call, visited_pages>>

\* lines 213-216: a link with an extension that was asked for
LoopFile ==
    /\ InCrawl("loop")
    /\ \E link \in Top(stack).links :
        /\ FileExtOf[link] # EXT_html
        /\ FileExtOf[link] \in allowed_exts
        /\ LET f == Top(stack)
           IN  IF BudgetExhausted
               THEN /\ stack' = SetTop(stack, Break(f))
                    /\ pc' = pc
                    /\ UNCHANGED <<downloaded_files_count, files, observed>>
               ELSE \E now \in ClockOf[link], env \in DownloadEnvs :
                    \E g \in {download_file(link, FileExtOf[link], now, env)} :
                        /\ SetGlobals(g)
                        /\ dispatched' = dispatched (+) SetToBag({link})
                        /\ IF g.raised THEN Abort ELSE Continue(f, link)
                        /\ UNCHANGED <<fetched, extracted>>
    /\ UNCHANGED <<args, upload_call, visited_pages>>

\* a link with any other extension is dropped instead of crawled
LoopOther_skipped ==
    /\ InCrawl("loop")
    /\ \E link \in Top(stack).links :
        /\ FileExtOf[link] # EXT_html
        /\ FileExtOf[link] \notin allowed_exts
        /\ Continue(Top(stack), link)
    /\ UNCHANGED <<args, upload_call, downloaded_files_count, visited_pages, files, observed>>

\* lines 219-225: any other extension is taken as a page to crawl
LoopOther ==
    /\ InCrawl("loop")
    /\ \E link \in Top(stack).links :
        /\ FileExtOf[link] # EXT_html
        /\ FileExtOf[link] \notin allowed_exts
        /\ LET f == Top(stack)
           IN  IF OffDomain(link) \/ DepthExceeded(f.current_depth)
               THEN Continue(f, link)
               ELSE Recurse(f, link)
    /\ UNCHANGED <<args, upload_call, downloaded_files_count, visited_pages, files, observed>>

\* line 188 with no link left: crawl() returns
CrawlReturn ==
    /\ InCrawl("loop")
    /\ Top(stack).links = {}
    /\ stack' = Return(stack)
    /\ pc' = AfterReturn(stack')
    /\ UNCHANGED <<args, upload_call, downloaded_files_count, visited_pages, files, observed>>

Next ==
    \/ Main
    \/ CrawlEntry
    \/ LoopHtml
    \/ LoopFile
    \/ LoopOther
    \/ CrawlReturn

Spec == Init /\ [][Next]_vars

\* the program is sequential and runs on: a step that can be taken is taken
LiveSpec == Init /\ [][Next]_vars /\ WF_vars(Next)

(***************************************************************************)
(* upload_to_azure_blob() on its own, lines 48-68: one call for the file    *)
(* d.PDF, for every answer of the blob store, every pair of modification   *)
(* times and every time zone.                                              *)
(***************************************************************************)
UploadInit ==
    /\ \E blob \in UploadInputs :
        upload_call = [pc |-> "called", file_path |-> F_pdf, blob |-> blob,
                       uploaded |-> {}, raised |-> FALSE]
    /\ max_depth = 0
    /\ max_files = 0
    /\ stay_on_domain = FALSE
    /\ allowed_exts = {EXT_pdf}
    /\ exclude_download = {}
    /\ exclude_crawl = {}
    /\ blob_upload = TRUE
    /\ container = TRUE
    /\ conn_str = TRUE
    /\ files = [n \in {F_pdf} |-> [src |-> U_pdf, complete |-> TRUE]]
    /\ downloaded_files_count = 1
    /\ visited_pages = {}
    /\ stack = <<>>
    /\ pc = "running"
    /\ fetched = EmptyBag
    /\ extracted = {}
    /\ dispatched = EmptyBag
    /\ requested = EmptyBag
    /\ writes = EmptyBag
    /\ uploaded = {}

\* the call runs to its end: it returns, or upload_blob raises
UploadCall ==
    /\ upload_call.pc = "called"
    /\ upload_call' =
            [upload_to_azure_blob(upload_call.file_path, upload_call.blob, upload_call)
                EXCEPT !.pc = "ended"]
    /\ UNCHANGED <<args, downloaded_files_count, visited_pages, files, stack, pc, observed>>

UploadSpec == UploadInit /\ [][UploadCall]_vars

(***************************************************************************)
(* Properties.                                                             *)
(***************************************************************************)
FetchedUrls == {e.url : e \in BagToSet(fetched)}
RequestedUrls == BagToSet(requested)
DispatchedUrls == BagToSet(dispatched)

\* the recursion stays below the cut of the model, so no call is ever held back
StackWithinBound == Len(stack) < MaxStack

\* C1: each URL is loaded by driver.get at most once, every loaded URL is in
\* visited_pages, and a call of crawl() with a URL that is already visited
\* returns without loading anything.
LoadedOnceAndVisited ==
    /\ \A e \in BagToSet(fetched) : CopiesIn(e, fetched) = 1 /\ e.url \in visited_pages
    /\ \A e1, e2 \in BagToSet(fetched) : e1.url = e2.url => e1 = e2
VisitedCallReturns ==
    (InCrawl("entry") /\ Top(stack).url \in visited_pages)
        => /\ fetched' = fetched
           /\ visited_pages' = visited_pages
           /\ Len(stack') = Len(stack) - 1
C1_AtMostOnceVisit == []LoadedOnceAndVisited /\ [][VisitedCallReturns]_vars

\* C1 witness: crawl() has just been called again with a URL that was loaded before
C1_Witness ==
    /\ InCrawl("entry")
    /\ Top(stack).url \in FetchedUrls
    /\ Top(stack).url \in visited_pages

\* C2: with max_files > 0 the download counter never exceeds max_files.
C2_DownloadCap ==
    max_files > 0 => downloaded_files_count <= max_files

\* C2 witness: the cap is reached while links are still waiting to be processed
C2_Witness ==
    /\ max_files > 1
    /\ downloaded_files_count = max_files
    /\ pc = "running"
    /\ \E i \in 1..Len(stack) : stack[i].links # {}

\* C3: with max_depth = N > 0 no page is loaded at a depth above N, the first
\* activation of crawl() has depth 1 and every activation is one deeper than
\* its caller.
C3_DepthBound ==
    /\ max_depth > 0 => \A e \in BagToSet(fetched) : e.depth <= max_depth
    /\ \A i \in 1..Len(stack) : stack[i].current_depth = i

\* C3 witness: a page was loaded at the deepest level allowed, below the start
C3_Witness ==
    /\ max_depth > 1
    /\ \E e \in BagToSet(fetched) : e.depth = max_depth
    /\ Len(stack) = max_depth

\* main() has ended: normally, with exit code 1, or by an uncaught exception
Finished == pc \in {"done", "exit1", "aborted"}

\* C4: on a finite link graph, cycles and self-links included, and for any
\* limits (max_depth = 0 and max_files = 0 included) the run eventually ends,
\* and the recursion never gets as deep as the cut of the model.
C4_Terminates == <>Finished /\ []StackWithinBound

\* C4 witness: an unbounded, uncapped crawl that went around a cycle of links
\* (start -> b -> start) and a self-link has ended
C4_Witness ==
    /\ pc = "done"
    /\ max_depth = 0
    /\ max_files = 0
    /\ \E p \in extracted : p.page = U_start /\ p.link = U_page
    /\ \E d \in 1..MaxStack : [url |-> U_page, depth |-> d] \in BagToSet(fetched)
    /\ U_php \in FetchedUrls

\* the budget is used up
CapReached == max_files # 0 /\ downloaded_files_count >= max_files

\* the link is on another host than the starting URL
OtherHost(link) == NetlocOf[link] # NetlocOf[starting_url]

\* a page link: no extension, or an extension that was not asked for
IsPageLink(link) == FileExtOf[link] = EXT_html \/ FileExtOf[link] \notin allowed_exts

\* a file link: an extension that was asked for, other than html
IsFileLink(link) == FileExtOf[link] # EXT_html /\ FileExtOf[link] \in allowed_exts

\* the local name of the link in the download directory
LocalNames(link) ==
    {LocalFilenameOf[link][FileExtOf[link]][now] : now \in ClockOf[link]}

\* download_file was called with the link and the link was dealt with: it is
\* on the exclusion list, or it was requested, or its local file is there
Downloaded(link) ==
    /\ link \in DispatchedUrls
    /\ \/ link \in exclude_download
       \/ link \in RequestedUrls
       \/ \E n \in LocalNames(link) : n \in DOMAIN files

\* C5: with stay_on_domain every page loaded besides the starting URL is on
\* the start host; a page link on another host is neither downloaded nor
\* crawled; and in a run that ends with budget left every file link found on
\* a loaded page went through download_file.
C5_DomainScoping ==
    stay_on_domain =>
        /\ \A e \in BagToSet(fetched) : e.url # starting_url => ~OtherHost(e.url)
        /\ \A link \in Hrefs :
            (IsPageLink(link) /\ OtherHost(link)) =>
                /\ link \notin DispatchedUrls
                /\ link \notin RequestedUrls
                /\ link \notin visited_pages
                /\ \A i \in 1..Len(stack) : stack[i].url # link
        /\ (pc = "done" /\ ~CapReached) =>
                \A p \in extracted : IsFileLink(p.link) => Downloaded(p.link)

\* C5 witness (Scenario A): extensions = [pdf], max_depth = 1, the start page
\* links to a pdf and to a page of another host; the run is over, the pdf is
\* saved
C5_Witness ==
    /\ stay_on_domain
    /\ allowed_exts = {EXT_pdf}
    /\ max_depth = 1
    /\ pc = "done"
    /\ [page |-> U_start, depth |-> 1, link |-> U_offpage] \in extracted
    /\ [page |-> U_start, depth |-> 1, link |-> U_pdf] \in extracted
    /\ F_pdf \in DOMAIN files
    /\ files[F_pdf] = [src |-> U_pdf, complete |-> TRUE]

\* the url contains one of the exclude_crawl substrings
MatchesCrawlExclusion(url) == \E ex \in exclude_crawl : Contains(ex, url)

\* C6: a URL that contains an exclude_crawl substring is never loaded, no
\* link is ever extracted from it, and its activation of crawl() never gets
\* past the exclusion check.
C6_CrawlExclusion ==
    \A u \in Hrefs :
        MatchesCrawlExclusion(u) =>
            /\ u \notin FetchedUrls
            /\ \A p \in extracted : p.page # u
            /\ \A i \in 1..Len(stack) :
                stack[i].url = u => (i = Len(stack) /\ stack[i].pc = "entry")

\* C6 witness: crawl() was called with an excluded URL and has returned, and
\* the crawl goes on
C6_Witness ==
    /\ pc = "running"
    /\ \E u \in Hrefs :
        /\ MatchesCrawlExclusion(u)
        /\ u \in visited_pages
        /\ \A i \in 1..Len(stack) : stack[i].url # u

\* the url contains one of the exclude_download substrings
MatchesDownloadExclusion(url) == \E ex \in exclude_download : Contains(ex, url)

\* C7: a link that contains an exclude_download substring is never requested
\* for download and never saved.
C7_DownloadExclusion ==
    \A u \in Hrefs :
        MatchesDownloadExclusion(u) =>
            /\ u \notin RequestedUrls
            /\ \A n \in DOMAIN files : files[n].src # u

\* a link with an extension that is neither asked for nor html/htm
Unclassified(link) ==
    /\ FileExtOf[link] \notin allowed_exts
    /\ FileExtOf[link] \notin {EXT_html, <<"h","t","m">>}

\* C8 as stated: an unclassified link is neither downloaded nor crawled.
C8_UnclassifiedSkipped ==
    \A u \in Hrefs :
        Unclassified(u) =>
            /\ u \notin DispatchedUrls
            /\ u \notin visited_pages
            /\ \A i \in 1..Len(stack) : stack[i].url # u

\* C8 amended: an unclassified link is never passed to download_file, and it
\* is crawled as a page: in a run that ends with budget left, crawl() was
\* called with every such link found on a loaded page that passes the domain
\* check and the depth check.
C8_UnclassifiedCrawled ==
    /\ \A u \in Hrefs :
        Unclassified(u) => (u \notin DispatchedUrls /\ u \notin RequestedUrls)
    /\ (pc = "done" /\ ~CapReached) =>
            \A p \in extracted :
                ( /\ Unclassified(p.link)
                  /\ (stay_on_domain => ~OtherHost(p.link))
                  /\ (max_depth = 0 \/ p.depth < max_depth) )
                    => p.link \in visited_pages

\* C8 witness: extensions = [pdf]; a .php link was found, crawled and loaded
C8_Witness ==
    /\ allowed_exts = {EXT_pdf}
    /\ pc = "done"
    /\ Unclassified(U_php)
    /\ \E p \in extracted : p.link = U_php
    /\ U_php \in FetchedUrls

\* a step in which driver.get failed: a load, no links, the activation is gone
PageLoadFailed ==
    /\ fetched' # fetched
    /\ extracted' = extracted
    /\ Len(stack') = Len(stack) - 1

\* a step in which a request was made and no complete file came of it
DownloadFailed ==
    /\ requested' # requested
    /\ \A n \in DOMAIN files' : n \notin DOMAIN files => ~files'[n].complete

\* C9: a page load that fails ends only its own activation of crawl(): the
\* caller goes on with all the links it had left (main ends normally when it
\* was the first page). A download that fails is not counted, is not
\* uploaded, and the page it was found on goes on with its other links.
FailureIsLocal ==
    /\ PageLoadFailed =>
        /\ pc' = (IF Len(stack) = 1 THEN "done" ELSE "running")
        /\ stack' = SubSeq(stack, 1, Len(stack) - 1)
        /\ downloaded_files_count' = downloaded_files_count
    /\ DownloadFailed =>
        /\ pc' = "running"
        /\ downloaded_files_count' = downloaded_files_count
        /\ uploaded' = uploaded
        /\ Len(stack') >= Len(stack)
        /\ stack'[Len(stack)].pc = "loop"
        /\ Cardinality(Top(stack).links \ stack'[Len(stack)].links) = 1
        /\ stack'[Len(stack)].links \subseteq Top(stack).links
C9_FailuresNonFatal == [][FailureIsLocal]_vars

\* C9 witness: the load of a page failed (c.php was loaded and gave no link,
\* though it always links to something not visited), a write failed half way,
\* another download succeeded, and the run came to its normal end
C9_Witness ==
    /\ pc = "done"
    /\ stay_on_domain
    /\ U_php \in FetchedUrls
    /\ \A p \in extracted : p.page # U_php
    /\ \E n \in DOMAIN files : ~files[n].complete
    /\ downloaded_files_count >= 1

\* a step in which download_file was called with a link whose local file exists
CalledOnExisting(link) ==
    /\ CopiesIn(link, dispatched') > CopiesIn(link, dispatched)
    /\ \E n \in LocalNames(link) : n \in DOMAIN files

\* C10: when the local file exists download_file makes no request, leaves the
\* directory as it is, counts nothing and uploads nothing; so no local file
\* is opened for writing twice in a run.
ExistingFileUntouched ==
    \A link \in Hrefs :
        CalledOnExisting(link) =>
            /\ requested' = requested
            /\ files' = files
            /\ writes' = writes
            /\ downloaded_files_count' = downloaded_files_count
            /\ uploaded' = uploaded
WrittenOnce == \A n \in BagToSet(writes) : CopiesIn(n, writes) = 1
C10_ExistingFileShortCircuit == [][ExistingFileUntouched]_vars /\ []WrittenOnce

\* C10 witness: with upload on, two links with the same local name went to
\* download_file; the first was saved, the second made no request
C10_Witness ==
    /\ blob_upload
    /\ exclude_download = {}
    /\ U_pdf \in DispatchedUrls
    /\ U_offpdf \in DispatchedUrls
    /\ F_pdf \in DOMAIN files
    /\ files[F_pdf].src = U_offpdf
    /\ U_pdf \notin RequestedUrls

\* every request of the run was answered and written completely
AllDownloadsSucceeded ==
    /\ BagCardinality(requested) = BagCardinality(writes)
    /\ \A n \in DOMAIN files : files[n].complete

\* the file links found on the page that are not on the exclusion list and
\* whose local file was not left by an earlier run
QualifyingLinks(page) ==
    {p.link : p \in {q \in extracted :
        /\ q.page = page
        /\ IsFileLink(q.link)
        /\ q.link \notin exclude_download
        /\ \A n \in LocalNames(q.link) : n \in DOMAIN files => files[n] # OldFile}}

\* the local file names of the qualifying links of the page
QualifyingNames(page) == UNION {LocalNames(link) : link \in QualifyingLinks(page)}

\* C11: when a loaded page carries at least max_files (> 0) qualifying
\* download links with distinct file names and every download of the run
\* succeeds, the run ends with exactly max_files files requested, written and
\* counted: the links beyond the budget are skipped.
C11_ExactlyMaxFiles ==
    (/\ pc = "done"
     /\ max_files > 0
     /\ AllDownloadsSucceeded
     /\ \E page \in Hrefs : Cardinality(QualifyingNames(page)) >= max_files)
        => /\ downloaded_files_count = max_files
           /\ BagCardinality(writes) = max_files
           /\ BagCardinality(requested) = max_files

\* C11 witness (Scenario C): max_files = 1, page b carries two pdf links with
\* distinct names; one file is saved and the run ended with the other link
\* never passed to download_file
C11_Witness ==
    /\ pc = "done"
    /\ max_files = 1
    /\ allowed_exts = {EXT_pdf}
    /\ AllDownloadsSucceeded
    /\ QualifyingLinks(U_page) = {U_pdf, U_pdf2}
    /\ Cardinality(QualifyingNames(U_page)) = 2
    /\ downloaded_files_count = 1
    /\ BagCardinality(writes) = 1
    /\ \E link \in {U_pdf, U_pdf2} : link \notin DispatchedUrls

\* a step of the loop of the current activation that takes link and goes on
\* (to the next link, or into the recursive call)
Taken(link) ==
    /\ InCrawl("loop")
    /\ link \in Top(stack).links
    /\ Len(stack') >= Len(stack)
    /\ stack'[Len(stack)].links = Top(stack).links \ {link}

\* the step calls download_file with the link
DispatchedNow(link) == CopiesIn(link, dispatched') = CopiesIn(link, dispatched) + 1

\* the step calls crawl() with the link, one level deeper
RecursedInto(link) ==
    /\ Len(stack') = Len(stack) + 1
    /\ stack'[Len(stack')] = Call(link, Top(stack).current_depth + 1)

\* what a step does with a link without extension that passes the domain check
\* when html was asked for
PageSavedAndCrawledIndependently ==
    \A link \in Hrefs :
        (/\ EXT_html \in allowed_exts
         /\ FileExtOf[link] = EXT_html
         /\ ~(stay_on_domain /\ OtherHost(link))
         /\ Taken(link))
            => /\ DispatchedNow(link) <=> (max_files = 0 \/ downloaded_files_count < max_files)
               /\ ~DispatchedNow(link) => UNCHANGED <<dispatched, requested, files>>
               /\ \A n \in DOMAIN files' \ DOMAIN files :
                    /\ EndsWith(n, dot_html)
                    /\ files'[n].src = link
               /\ RecursedInto(link)
                    <=> (max_depth = 0 \/ Top(stack).current_depth < max_depth)

\* C12: with html among the extensions a link without extension that passes
\* the domain check is a page: download_file is called with it exactly when
\* the budget permits, what is saved is an .html file, and crawl() is called
\* with it exactly when max_depth = 0 or current_depth < max_depth, whatever
\* the first decision was.
C12_PageSavedAndCrawled == [][PageSavedAndCrawledIndependently]_vars

\* C12 witness: max_depth = 1, the page b linked from the start page was saved
\* as b.html although the depth limit kept crawl() from being called with it
C12_Witness ==
    /\ pc = "done"
    /\ max_depth = 1
    /\ EXT_html \in allowed_exts
    /\ <<"b">> \o dot_html \in DOMAIN files
    /\ files[<<"b">> \o dot_html] = [src |-> U_page, complete |-> TRUE]
    /\ U_page \notin visited_pages

\* upload was asked for and the container name or the connection string is
\* missing
MisconfiguredUpload == blob_upload /\ (~container \/ ~conn_str)

\* nothing of the traversal has happened
NothingTraversed ==
    /\ stack = <<>>
    /\ fetched = EmptyBag
    /\ extracted = {}
    /\ visited_pages = {}
    /\ downloaded_files_count = 0
    /\ dispatched = EmptyBag
    /\ requested = EmptyBag
    /\ writes = EmptyBag
    /\ uploaded = {}

\* the only step of main() on a configuration error is the exit with code 1
ExitsWithCode1 == (pc = "init" /\ MisconfiguredUpload) => pc' = "exit1"

\* C13: when upload is asked for and the container name or the connection
\* string is missing, main() goes from its start straight to exit code 1, and
\* no page is loaded, no URL marked visited and no file downloaded, ever.
C13_ConfigErrorFatal ==
    /\ [](MisconfiguredUpload => (pc \in {"init", "exit1"} /\ NothingTraversed))
    /\ [][ExitsWithCode1]_vars

\* C13 witness: upload asked for with a container but no connection string,
\* and the program has exited with code 1
C13_Witness ==
    /\ pc = "exit1"
    /\ blob_upload
    /\ container
    /\ ~conn_str

\* the call of upload_to_azure_blob has ended and has invoked upload_blob
UploadInvoked == upload_call.pc = "ended" /\ upload_call.file_path \in upload_call.uploaded

\* C14: upload_to_azure_blob uploads the file if and only if the properties
\* of the blob cannot be read or the local file was modified strictly after
\* the blob; a blob modified at the same instant or later is left alone.
C14_MirrorFreshness ==
    upload_call.pc = "ended" =>
        (UploadInvoked <=>
            \/ upload_call.blob.props = "error"
            \/ upload_call.blob.local_modified > upload_call.blob.last_modified)

\* once the budget is used up a step loads no page, requests no download,
\* writes and counts nothing and marks no URL visited
HaltedAfterCap ==
    CapReached =>
        /\ fetched' = fetched
        /\ requested' = requested
        /\ writes' = writes
        /\ visited_pages' = visited_pages
        /\ downloaded_files_count' = downloaded_files_count

\* C15: with max_files > 0, from the state in which downloaded_files_count
\* reaches max_files on, no activation of crawl(), pending or enclosing, loads
\* a page or requests a download, and no URL is added to visited_pages.
C15_BudgetHalts == [][HaltedAfterCap]_vars

\* C15 witness: an unbounded-depth run ended with the budget of one file used
\* up, and the page link c.php found on a loaded page was left unvisited
C15_Witness ==
    /\ pc = "done"
    /\ max_depth = 0
    /\ max_files = 1
    /\ downloaded_files_count = 1
    /\ ~stay_on_domain
    /\ \E p \in extracted : p.link = U_php
    /\ U_php \notin visited_pages
    /\ U_php \notin FetchedUrls

\* the link passes the domain check
DomainPermitted(link) == ~(stay_on_domain /\ OtherHost(link))

\* a crawl without limits and without exclusions
Unlimited == max_depth = 0 /\ max_files = 0 /\ exclude_crawl = {}

\* at the normal end of an unlimited crawl the starting URL was loaded and so
\* was every domain-permitted page link found on a loaded page
AllReachableLoaded ==
    (pc = "done" /\ Unlimited) =>
        /\ starting_url \in FetchedUrls
        /\ \A p \in extracted :
            (IsPageLink(p.link) /\ DomainPermitted(p.link)) => p.link \in FetchedUrls

\* in an unlimited crawl a step that takes a domain-permitted page link
\* calls crawl() with it
NeverSuppressed ==
    \A link \in Hrefs :
        (Unlimited /\ IsPageLink(link) /\ DomainPermitted(link) /\ Taken(link))
            => RecursedInto(link)

\* C16: with max_depth = 0 (max_files = 0, no exclusions) the depth check
\* never suppresses a recursion, the run ends, and at its normal end every
\* page reachable from the starting URL through domain-permitted page links
\* of the pages that loaded has been loaded, at whatever depth.
C16_UnboundedDepth ==
    /\ <>Finished
    /\ []AllReachableLoaded
    /\ [][NeverSuppressed]_vars

\* C16 witness: an unlimited crawl has ended after loading the page of the
\* other host at depth 4, along start -> b -> c.php -> x
C16_Witness ==
    /\ pc = "done"
    /\ Unlimited
    /\ [url |-> U_offpage, depth |-> 4] \in BagToSet(fetched)

\* a step in which upload_blob is invoked leaves the crawl running, with the
\* other links of the page and the enclosing activations in place
UploadLeavesCrawlGoing ==
    (uploaded' # uploaded) =>
        /\ pc' = "running"
        /\ \E link \in Hrefs : Taken(link)

\* C17: no error other than a configuration error ends the run: the run is
\* never ended by an exception, and in particular a step in which the upload
\* of a just-downloaded file fails goes on with the remaining links.
C17_UploadFailureNonFatal ==
    /\ [](pc # "aborted")
    /\ [][UploadLeavesCrawlGoing]_vars

RECURSIVE WithinDepth(_)
\* the pages at most k - 1 link hops from the starting URL (depth k, the
\* start being at depth 1) along the domain-permitted page links found on the
\* loaded pages
WithinDepth(k) ==
    IF k <= 1
    THEN {starting_url}
    ELSE LET near == WithinDepth(k - 1)
         IN  near \cup {p.link : p \in {q \in extracted :
                            /\ q.page \in near
                            /\ IsPageLink(q.link)
                            /\ DomainPermitted(q.link)}}

\* C18: with max_depth = N > 0, max_files = 0 and no exclusions, at the normal
\* end of the run every domain-permitted page whose shortest link distance from
\* the starting URL puts it at depth <= N has been loaded, whatever the order
\* of the links and the path along which the page was first met.
C18_DepthBoundedComplete ==
    (pc = "done" /\ max_depth > 0 /\ max_files = 0 /\ exclude_crawl = {})
        => WithinDepth(max_depth) \subseteq FetchedUrls

\* with stay_on_domain a step that takes a file link while budget is left
\* calls download_file with it, whatever its host; a step that takes a page
\* link of another host neither calls download_file nor crawl()
HostGatesPagesOnly ==
    \A link \in Hrefs :
        (stay_on_domain /\ Taken(link)) =>
            /\ (IsFileLink(link) /\ ~CapReached) => DispatchedNow(link)
            /\ (IsPageLink(link) /\ OtherHost(link)) =>
                    /\ ~DispatchedNow(link)
                    /\ ~RecursedInto(link)

\* C19: even with stay_on_domain a link with an allowed extension other than
\* html found on a loaded page is passed to download_file whatever its host,
\* provided the budget is not used up; only page links meet the host check.
C19_FilesNotDomainGated == [][HostGatesPagesOnly]_vars

\* C19 witness: with stay_on_domain the pdf of the other host was requested
\* and saved, while the page of the other host was never visited
C19_Witness ==
    /\ stay_on_domain
    /\ U_offpdf \in DispatchedUrls
    /\ U_offpdf \in RequestedUrls
    /\ F_pdf \in DOMAIN files
    /\ files[F_pdf] = [src |-> U_offpdf, complete |-> TRUE]
    /\ \E p \in extracted : p.link = U_offpage
    /\ U_offpage \notin visited_pages
    /\ pc = "done"

\* C20: download_file is never called with the starting URL, which is marked
\* visited before any link is extracted and so is taken out of every set of
\* links: it is no link of any activation, it is never requested and no file
\* comes from it.
C20_StartNeverSaved ==
    /\ starting_url \notin DispatchedUrls
    /\ starting_url \notin RequestedUrls
    /\ \A n \in DOMAIN files : files[n].src # starting_url
    /\ \A i \in 1..Len(stack) : starting_url \notin stack[i].links
    /\ \A p \in extracted : p.link # starting_url

\* C20 witness: html was asked for, page b was loaded with the content that
\* links back to the starting URL (the one that also links to c.php), pages
\* were saved, and the run has ended
C20_Witness ==
    /\ pc = "done"
    /\ EXT_html \in allowed_exts
    /\ \E p \in extracted : p.page = U_page /\ p.link = U_php
    /\ <<"b">> \o dot_html \in DOMAIN files
    /\ downloaded_files_count >= 2

====
